---- MODULE Spec2Model ----
(***************************************************************************)
(* The in-memory query engine of backend/algorithms.py: the search         *)
(* functions, the sorts, the aggregations and                               *)
(* ComplexQueryEngine.execute_query, over Python values (None, str, float,  *)
(* datetime) and record dicts.                                              *)
(*                                                                         *)
(* A Python value is a record [t, s, n]: t is its type, s its text as a     *)
(* sequence of character codes (str), n its number (float) or its calendar  *)
(* ordinal year*10000 + month*100 + day (datetime).  "absent" marks a key   *)
(* the dict does not hold; "ninf" and "pinf" are float('-inf') and          *)
(* float('inf').                                                            *)
(***************************************************************************)
EXTENDS Integers, Sequences, FiniteSets, TLC

VARIABLES data, filters, sort_options, result

vars == <<data, filters, sort_options, result>>

\* Longest record sequence handed to the engine in the focused specifications.
MaxLen == 3

\* Longest record sequence handed to the engine in the combined specification.
MaxLenAll == 2

----------------------------------------------------------------------------
\* Python values

None == [t |-> "none", s |-> <<>>, n |-> 0]

Absent == [t |-> "absent", s |-> <<>>, n |-> 0]

Str(s) == [t |-> "str", s |-> s, n |-> 0]

Num(n) == [t |-> "num", s |-> <<>>, n |-> n]

Dt(n) == [t |-> "dt", s |-> <<>>, n |-> n]

NegInf == [t |-> "ninf", s |-> <<>>, n |-> 0]

PosInf == [t |-> "pinf", s |-> <<>>, n |-> 0]

\* bool(v): None, '' and 0 are falsy
Truthy(v) ==
    CASE v.t \in {"none", "absent"} -> FALSE
      [] v.t = "str" -> v.s # <<>>
      [] v.t = "num" -> v.n # 0
      [] OTHER -> TRUE

\* dict.get(field): None when the key is missing
Get(item, field) == IF item[field].t = "absent" THEN None ELSE item[field]

\* dict.get(field, default)
GetOr(item, field, default) ==
    IF item[field].t = "absent" THEN default ELSE item[field]

----------------------------------------------------------------------------
\* str operations, on sequences of character codes

IsDigit(c) == c >= 48 /\ c <= 57

\* str.lower() on ASCII text: 'A'..'Z' (65..90) to 'a'..'z'
Lower(s) == [i \in 1..Len(s) |-> IF s[i] >= 65 /\ s[i] <= 90 THEN s[i] + 32 ELSE s[i]]

\* needle in hay (equally hay.find(needle) != -1); '' is in every string
Contains(hay, needle) ==
    \E i \in 0..(Len(hay) - Len(needle)) : SubSeq(hay, i + 1, i + Len(needle)) = needle

\* a < b on str: lexicographic by code point
StrLt(a, b) ==
    \E k \in 1..(Len(a) + 1) :
        /\ k <= Len(b)
        /\ \A j \in 1..(k - 1) : a[j] = b[j]
        /\ (k = Len(a) + 1 \/ a[k] < b[k])

\* str(v) for the values a text field holds: str(None) is 'None'
PyStr(v) == IF v.t = "str" THEN v.s ELSE <<78, 111, 110, 101>>

\* re.match(r'\d{4}-\d{2}-\d{2}', s): a match at the start of s, the end is free
ReMatchDate(s) ==
    /\ Len(s) >= 10
    /\ \A i \in {1, 2, 3, 4, 6, 7, 9, 10} : IsDigit(s[i])
    /\ s[5] = 45
    /\ s[8] = 45

IsLeap(y) == (y % 4 = 0 /\ y % 100 # 0) \/ y % 400 = 0

DaysInMonth(y, m) ==
    CASE m \in {4, 6, 9, 11} -> 30
      [] m = 2 -> IF IsLeap(y) THEN 29 ELSE 28
      [] OTHER -> 31

\* the number a token of one or two digits stands for (a leading blank counts 0)
TokenVal(tok) ==
    IF Len(tok) = 1 THEN tok[1] - 48
    ELSE (IF tok[1] = 32 THEN 0 ELSE (tok[1] - 48) * 10) + (tok[2] - 48)

\* %m: 1[0-2]|0[1-9]|[1-9]
MonthToken(tok) ==
    \/ Len(tok) = 1 /\ tok[1] >= 49 /\ tok[1] <= 57
    \/ Len(tok) = 2 /\ IsDigit(tok[1]) /\ IsDigit(tok[2]) /\ TokenVal(tok) \in 1..12

\* %d: 3[0-1]|[1-2]\d|0[1-9]|[1-9]| [1-9]
DayToken(tok) ==
    \/ Len(tok) = 1 /\ tok[1] >= 49 /\ tok[1] <= 57
    \/ Len(tok) = 2 /\ IsDigit(tok[1]) /\ IsDigit(tok[2]) /\ TokenVal(tok) \in 1..31
    \/ Len(tok) = 2 /\ tok[1] = 32 /\ tok[2] >= 49 /\ tok[2] <= 57

StrptimeFail == [ok |-> FALSE, v |-> None]

\* datetime.strptime(s, '%Y-%m-%d'): the whole of s must be year-month-day with a
\* four-digit year >= 1 and a day the month has; ok = FALSE is ValueError
Strptime(s) ==
    IF Len(s) < 8 \/ Len(s) > 10 THEN StrptimeFail
    ELSE IF ~((\A i \in 1..4 : IsDigit(s[i])) /\ s[5] = 45) THEN StrptimeFail
    ELSE LET p == IF s[7] = 45 THEN 7 ELSE 8
             y == (s[1] - 48) * 1000 + (s[2] - 48) * 100 + (s[3] - 48) * 10 + (s[4] - 48)
             mtok == SubSeq(s, 6, p - 1)
             dtok == SubSeq(s, p + 1, Len(s))
         IN IF s[p] # 45 \/ Len(dtok) \notin {1, 2} THEN StrptimeFail
            ELSE IF ~(MonthToken(mtok) /\ DayToken(dtok)) THEN StrptimeFail
            ELSE IF y < 1 \/ TokenVal(dtok) > DaysInMonth(y, TokenVal(mtok))
                 THEN StrptimeFail
            ELSE [ok |-> TRUE, v |-> Dt(y * 10000 + TokenVal(mtok) * 100 + TokenVal(dtok))]

\* datetime.min: 0001-01-01
DatetimeMin == Dt(10101)

----------------------------------------------------------------------------
\* Python's < between two values

IsNumber(v) == v.t \in {"num", "ninf", "pinf"}

\* whether a < b is defined; where it is not, Python raises TypeError
Comparable(a, b) ==
    \/ IsNumber(a) /\ IsNumber(b)
    \/ a.t = "str" /\ b.t = "str"
    \/ a.t = "dt" /\ b.t = "dt"

PyLt(a, b) ==
    CASE a.t = "str" -> StrLt(a.s, b.s)
      [] a.t = "dt" -> a.n < b.n
      [] a.t = "ninf" -> b.t # "ninf"
      [] a.t = "pinf" -> FALSE
      [] OTHER -> b.t = "pinf" \/ (b.t = "num" /\ a.n < b.n)

----------------------------------------------------------------------------
\* What a call gives: a value, or the exception it raised

Ok(val) == [exc |-> "", val |-> val]

Raise(e) == [exc |-> e, val |-> <<>>]

Reverse(seq) == [i \in 1..Len(seq) |-> seq[Len(seq) + 1 - i]]

----------------------------------------------------------------------------
\* SearchAlgorithms

\* keyword_search with the break after the append left out: the item is appended
\* once for every field that holds the keyword
RECURSIVE FieldLoop_NoBreak(_, _, _, _)
FieldLoop_NoBreak(item, keyword_lower, fields, i) ==
    IF i > Len(fields) THEN <<>>
    ELSE LET field_value == Lower(PyStr(GetOr(item, fields[i], Str(<<>>))))
         IN (IF Contains(field_value, keyword_lower) THEN <<item>> ELSE <<>>)
                \o FieldLoop_NoBreak(item, keyword_lower, fields, i + 1)

\* the inner loop of keyword_search over fields[i..]: the item is appended at the
\* first field whose text holds the keyword, and the loop breaks there
RECURSIVE FieldLoop(_, _, _, _)
FieldLoop(item, keyword_lower, fields, i) ==
    IF i > Len(fields) THEN <<>>
    ELSE LET field_value == Lower(PyStr(GetOr(item, fields[i], Str(<<>>))))
         IN IF Contains(field_value, keyword_lower) THEN <<item>>
            ELSE FieldLoop(item, keyword_lower, fields, i + 1)

RECURSIVE KeywordLoop(_, _, _, _)
KeywordLoop(items, keyword_lower, fields, i) ==
    IF i > Len(items) THEN <<>>
    ELSE FieldLoop(items[i], keyword_lower, fields, 1)
             \o KeywordLoop(items, keyword_lower, fields, i + 1)

keyword_search(items, keyword, fields) == KeywordLoop(items, Lower(keyword), fields, 1)

\* min_val = datetime.strptime(min_val, '%Y-%m-%d') if isinstance(min_val, str)
\* else min_val, done only for a truthy bound; ok = FALSE is ValueError
ConvertBound(bound) ==
    IF Truthy(bound) /\ bound.t = "str" THEN Strptime(bound.s)
    ELSE [ok |-> TRUE, v |-> bound]

\* "Convert string dates to comparable format": for a str value with the shape of
\* a date, the value and then each truthy bound are parsed; the first ValueError
\* skips the item (ok = FALSE) and leaves converted what was converted before it.
\* A bound converted to a datetime stays converted for the items that follow.
RangeConvert(value, min_val, max_val) ==
    IF ~(value.t = "str" /\ ReMatchDate(value.s))
    THEN [ok |-> TRUE, value |-> value, min_val |-> min_val, max_val |-> max_val]
    ELSE CHOOSE r \in
           {[ok |-> pv.ok /\ pmin.ok /\ pmax.ok,
             value |-> pv.v,
             min_val |-> IF pv.ok /\ pmin.ok THEN pmin.v ELSE min_val,
             max_val |-> IF pv.ok /\ pmin.ok /\ pmax.ok THEN pmax.v ELSE max_val] :
                pv \in {Strptime(value.s)},
                pmin \in {ConvertBound(min_val)},
                pmax \in {ConvertBound(max_val)}} : TRUE

\* "Apply range filter" on the converted value c.value: exc is the TypeError of a
\* < or > between unlike types, results gains the item that passes both bounds
RangeCompare(item, st, c) ==
    LET bounds == [st EXCEPT !.min_val = c.min_val, !.max_val = c.max_val]
    IN IF ~c.ok THEN bounds
       ELSE IF c.min_val # None /\ ~Comparable(c.value, c.min_val)
            THEN [bounds EXCEPT !.exc = "TypeError"]
       ELSE IF c.min_val # None /\ PyLt(c.value, c.min_val) THEN bounds
       ELSE IF c.max_val # None /\ ~Comparable(c.value, c.max_val)
            THEN [bounds EXCEPT !.exc = "TypeError"]
       ELSE IF c.max_val # None /\ PyLt(c.max_val, c.value) THEN bounds
       ELSE [bounds EXCEPT !.results = Append(st.results, item)]

\* One pass of the loop body of range_search over one item, from the loop's state
\* st = [exc, min_val, max_val, results]; an item with no value is passed over
RangeBody(item, field, st) ==
    IF Get(item, field) = None THEN st
    ELSE CHOOSE r \in {RangeCompare(item, st, c) :
                           c \in {RangeConvert(Get(item, field), st.min_val, st.max_val)}} : TRUE

\* the loop of range_search from item i on; it ends at the first exception
RECURSIVE RangeLoop(_, _, _, _)
RangeLoop(items, i, field, st) ==
    IF i > Len(items) \/ st.exc # "" THEN st
    ELSE CHOOSE r \in {RangeLoop(items, i + 1, field, nxt) :
                           nxt \in {RangeBody(items[i], field, st)}} : TRUE

range_search(items, field, min_val, max_val) ==
    LET init == [exc |-> "", min_val |-> min_val, max_val |-> max_val, results |-> <<>>]
    IN CHOOSE r \in {(IF st.exc # "" THEN Raise(st.exc) ELSE Ok(st.results)) :
                         st \in {RangeLoop(items, 1, field, init)}} : TRUE

----------------------------------------------------------------------------
\* SortingAlgorithms

\* sorted() compares keys with < only; a pair of keys of unlike types makes it
\* raise TypeError as soon as the list has two elements or more
KeysComparable(keyed) ==
    \A i, j \in 1..Len(keyed) : i # j => Comparable(keyed[i].k, keyed[j].k)

\* binary insertion of e into a sorted run: e goes after every element that is
\* not greater than it, so equal keys keep their order
InsertSorted(run, e) ==
    LET le == {j \in 1..Len(run) : ~PyLt(e.k, run[j].k)}
        p == IF le = {} THEN 0 ELSE CHOOSE j \in le : \A h \in le : h <= j
    IN SubSeq(run, 1, p) \o <<e>> \o SubSeq(run, p + 1, Len(run))

RECURSIVE StableSort(_)
StableSort(keyed) ==
    IF keyed = <<>> THEN <<>>
    ELSE CHOOSE r \in {InsertSorted(run, keyed[Len(keyed)]) :
                           run \in {StableSort(SubSeq(keyed, 1, Len(keyed) - 1))}} : TRUE

\* sorted(items, key=..., reverse=reverse) on the decorated list: with reverse the
\* list is reversed, sorted and reversed again, which keeps equal keys in order
Sorted(keyed, reverse) ==
    IF reverse THEN Reverse(StableSort(Reverse(keyed))) ELSE StableSort(keyed)

\* the key function execute_query hands to timsort
sort_key(item, field, reverse) ==
    LET value == Get(item, field)
    IN IF field = "date" /\ Truthy(value)
       THEN (IF Strptime(value.s).ok THEN Strptime(value.s).v ELSE DatetimeMin)
       ELSE IF Truthy(value) THEN value
       ELSE IF reverse THEN NegInf ELSE PosInf

\* the list with each item beside its key: sorted() calls the key function once
\* per item
Decorate(items, field, reverse) ==
    [i \in 1..Len(items) |-> [k |-> sort_key(items[i], field, reverse), x |-> items[i]]]

\* timsort as sorted(items, key=...)[::-1] for reverse: an ascending sort turned
\* round, which turns equal keys round too
timsort_ReversedAfter(items, field, reverse) ==
    CHOOSE r \in {(IF ~KeysComparable(keyed) THEN Raise("TypeError")
                   ELSE Ok([i \in 1..Len(items) |->
                              (IF reverse THEN Reverse(StableSort(keyed))
                               ELSE StableSort(keyed))[i].x])) :
                      keyed \in {Decorate(items, field, reverse)}} : TRUE

\* timsort(items, sort_key, reverse), the key function given by its field
timsort(items, field, reverse) ==
    CHOOSE r \in {(IF ~KeysComparable(keyed) THEN Raise("TypeError")
                   ELSE Ok([i \in 1..Len(items) |-> Sorted(keyed, reverse)[i].x])) :
                      keyed \in {Decorate(items, field, reverse)}} : TRUE

\* the outcome of quicksort(left) + middle + quicksort(right); left is sorted
\* first, and an exception of either call ends the whole
QuickJoin(l, middle, rt) ==
    IF l.exc # "" THEN l
    ELSE IF rt.exc # "" THEN rt
    ELSE Ok(l.val \o middle \o rt.val)

\* quicksort with the pivot alone in the middle and the other elements that
\* equal it sent right: the usual two-way partition
RECURSIVE QuickKeyed_PivotAlone(_)
QuickKeyed_PivotAlone(keyed) ==
    IF Len(keyed) <= 1 THEN Ok(keyed)
    ELSE LET p == (Len(keyed) \div 2) + 1
             pivot_key == keyed[p].k
             others == SubSeq(keyed, 1, p - 1) \o SubSeq(keyed, p + 1, Len(keyed))
         IN IF \E i \in 1..Len(keyed) : ~Comparable(keyed[i].k, pivot_key)
            THEN Raise("TypeError")
            ELSE CHOOSE r \in
                   {QuickJoin(l, <<keyed[p]>>, rt) :
                        l \in {QuickKeyed_PivotAlone(
                                   SelectSeq(others, LAMBDA e : PyLt(e.k, pivot_key)))},
                        rt \in {QuickKeyed_PivotAlone(
                                   SelectSeq(others, LAMBDA e : ~PyLt(e.k, pivot_key)))}} : TRUE

\* quicksort on a list whose elements carry their key: the pivot is
\* arr[len(arr) // 2]; left, middle and right are the elements below, equal to
\* and above the pivot's key, each in the order of arr
RECURSIVE QuickKeyed(_)
QuickKeyed(keyed) ==
    IF Len(keyed) <= 1 THEN Ok(keyed)
    ELSE LET pivot_key == keyed[(Len(keyed) \div 2) + 1].k
         IN IF \E i \in 1..Len(keyed) : ~Comparable(keyed[i].k, pivot_key)
            THEN Raise("TypeError")
            ELSE CHOOSE r \in
                   {QuickJoin(l, SelectSeq(keyed, LAMBDA e : e.k = pivot_key), rt) :
                        l \in {QuickKeyed(SelectSeq(keyed, LAMBDA e : PyLt(e.k, pivot_key)))},
                        rt \in {QuickKeyed(SelectSeq(keyed, LAMBDA e : PyLt(pivot_key, e.k)))}} : TRUE

\* quicksort(arr, key_func) with the key function of the ascending sort on field;
\* arr is read and never assigned to
quicksort(arr, field) ==
    CHOOSE r \in {(IF sorted.exc # "" THEN sorted
                   ELSE Ok([i \in 1..Len(arr) |-> sorted.val[i].x])) :
                      sorted \in {QuickKeyed(Decorate(arr, field, FALSE))}} : TRUE

----------------------------------------------------------------------------
\* AggregationAlgorithms
\*
\* A float of the aggregation is held as its count of hundredths, which makes
\* round(x, 2) a rounding to an integer.  statistics.mode is that of Python 3.8
\* and later: of several most frequent values it returns the first met, and it
\* raises StatisticsError for empty data only.

\* 'Unknown'
Text_Unknown == <<85, 110, 107, 110, 111, 119, 110>>

\* 'Uncategorized'
Text_Uncategorized == <<85, 110, 99, 97, 116, 101, 103, 111, 114, 105, 122, 101, 100>>

\* round(): p / q to the nearest integer, a half to the even one; q > 0
RoundDiv(p, q) ==
    LET fl == IF p >= 0 THEN p \div q ELSE -((-p + q - 1) \div q)
        r == p - fl * q
    IN IF 2 * r < q THEN fl
       ELSE IF 2 * r > q THEN fl + 1
       ELSE IF fl % 2 = 0 THEN fl ELSE fl + 1

\* sum(seq)
RECURSIVE Sum(_)
Sum(seq) == IF seq = <<>> THEN 0 ELSE Sum(SubSeq(seq, 1, Len(seq) - 1)) + seq[Len(seq)]

\* float(receipt.get('amount', 0) or 0)
Amount(receipt) ==
    LET amount == GetOr(receipt, "amount", Num(0))
    IN IF Truthy(amount) THEN 100 * amount.n ELSE 0

\* statistics.median, rounded: the middle of the sorted amounts, or the mean of
\* the two middle ones
Median(amounts) ==
    CHOOSE m \in
      {(IF Len(amounts) % 2 = 1 THEN sorted[(Len(amounts) + 1) \div 2].x
        ELSE RoundDiv(sorted[Len(amounts) \div 2].x + sorted[(Len(amounts) \div 2) + 1].x, 2)) :
           sorted \in {StableSort([i \in 1..Len(amounts) |->
                                     [k |-> Num(amounts[i]), x |-> amounts[i]]])}} : TRUE

\* how often v occurs in seq
Frequency(seq, v) == Cardinality({i \in 1..Len(seq) : seq[i] = v})

\* statistics.mode: the first of the most frequent values
Mode(amounts) ==
    amounts[CHOOSE i \in 1..Len(amounts) :
               /\ \A j \in 1..Len(amounts) :
                     Frequency(amounts, amounts[j]) <= Frequency(amounts, amounts[i])
               /\ \A j \in 1..(i - 1) :
                     Frequency(amounts, amounts[j]) < Frequency(amounts, amounts[i])]

\* calculate_basic_stats(amounts); the except branch is never taken, since the
\* amounts are not empty where mode is called
calculate_basic_stats(amounts) ==
    IF amounts = <<>> THEN [sum |-> 0, mean |-> 0, median |-> 0, mode |-> 0]
    ELSE [sum |-> Sum(amounts),
          mean |-> RoundDiv(Sum(amounts), Len(amounts)),
          median |-> Median(amounts),
          mode |-> Mode(amounts)]

\* a list in place of a dict: every use of a key adds an entry
DistinctInOrder_EveryUse(keys) == keys

\* the keys of a defaultdict in the order they were first used
RECURSIVE DistinctInOrder(_)
DistinctInOrder(keys) ==
    IF keys = <<>> THEN <<>>
    ELSE CHOOSE r \in
           {(IF \E i \in 1..Len(before) : before[i] = keys[Len(keys)] THEN before
             ELSE Append(before, keys[Len(keys)])) :
                before \in {DistinctInOrder(SubSeq(keys, 1, Len(keys) - 1))}} : TRUE

\* the count and the total the loop of an aggregation leaves under key
GroupCount(keys, key) == Cardinality({i \in 1..Len(keys) : keys[i] = key})

GroupTotal(receipts, keys, key) ==
    Sum([i \in 1..Len(receipts) |-> IF keys[i] = key THEN Amount(receipts[i]) ELSE 0])

\* sorted(result, key=lambda x: x[field], reverse=True) on the rows of a view
SortRowsDescending(rows, field) ==
    CHOOSE r \in {[i \in 1..Len(rows) |-> sorted[i].x] :
                     sorted \in {Sorted([i \in 1..Len(rows) |->
                                           [k |-> Num(rows[i][field]), x |-> rows[i]]], TRUE)}} : TRUE

\* vendor_aggregation with the 'Unknown' group made before the loop, so that its
\* row is there with count 0 when no receipt falls in it
vendor_aggregation_UnknownAlways(receipts) ==
    CHOOSE r \in
      {SortRowsDescending(
           [j \in 1..Len(groups) |->
              [vendor |-> groups[j],
               count |-> GroupCount(keys, groups[j]),
               total |-> GroupTotal(receipts, keys, groups[j]),
               average |-> IF GroupCount(keys, groups[j]) > 0
                           THEN RoundDiv(GroupTotal(receipts, keys, groups[j]),
                                         GroupCount(keys, groups[j]))
                           ELSE 0]], "total") :
          keys \in {[i \in 1..Len(receipts) |-> GetOr(receipts[i], "vendor", Str(Text_Unknown))]},
          groups \in {DistinctInOrder(
                         <<Str(Text_Unknown)>> \o
                         [i \in 1..Len(receipts) |->
                            GetOr(receipts[i], "vendor", Str(Text_Unknown))])}} : TRUE

\* vendor_aggregation(receipts): receipt.get('vendor', 'Unknown') is the group
\* key, so None is a key of its own when the dict holds vendor: None
vendor_aggregation(receipts) ==
    CHOOSE r \in
      {SortRowsDescending(
           [j \in 1..Len(groups) |->
              [vendor |-> groups[j],
               count |-> GroupCount(keys, groups[j]),
               total |-> GroupTotal(receipts, keys, groups[j]),
               average |-> RoundDiv(GroupTotal(receipts, keys, groups[j]),
                                    GroupCount(keys, groups[j]))]], "total") :
          keys \in {[i \in 1..Len(receipts) |-> GetOr(receipts[i], "vendor", Str(Text_Unknown))]},
          groups \in {DistinctInOrder([i \in 1..Len(receipts) |->
                                         GetOr(receipts[i], "vendor", Str(Text_Unknown))])}} : TRUE

\* category_aggregation(receipts)
category_aggregation(receipts) ==
    CHOOSE r \in
      {SortRowsDescending(
           [j \in 1..Len(groups) |->
              [category |-> groups[j],
               count |-> GroupCount(keys, groups[j]),
               amount |-> GroupTotal(receipts, keys, groups[j])]], "amount") :
          keys \in {[i \in 1..Len(receipts) |->
                       GetOr(receipts[i], "category", Str(Text_Uncategorized))]},
          groups \in {DistinctInOrder([i \in 1..Len(receipts) |->
                                         GetOr(receipts[i], "category", Str(Text_Uncategorized))])}} : TRUE

\* a year of four digits and a month of two, as strftime writes them
Digits4(y) ==
    <<48 + (y \div 1000), 48 + ((y \div 100) % 10), 48 + ((y \div 10) % 10), 48 + (y % 10)>>

Digits2(m) == <<48 + (m \div 10), 48 + (m % 10)>>

\* %b
MonthAbbr ==
    << <<74, 97, 110>>, <<70, 101, 98>>, <<77, 97, 114>>, <<65, 112, 114>>,
       <<77, 97, 121>>, <<74, 117, 110>>, <<74, 117, 108>>, <<65, 117, 103>>,
       <<83, 101, 112>>, <<79, 99, 116>>, <<78, 111, 118>>, <<68, 101, 99>> >>

\* date_obj.strftime('%Y-%m') of a datetime in the years 1000..9999
Strftime_Ym(dt) == Digits4(dt.n \div 10000) \o <<45>> \o Digits2((dt.n \div 100) % 100)

\* date_obj.strftime('%b %Y')
Strftime_bY(dt) == MonthAbbr[(dt.n \div 100) % 100] \o <<32>> \o Digits4(dt.n \div 10000)

\* datetime.strptime(s, '%Y-%m'): the first day of the month
Strptime_Ym(s) ==
    IF Len(s) \notin {6, 7} THEN StrptimeFail
    ELSE IF ~((\A i \in 1..4 : IsDigit(s[i])) /\ s[5] = 45) THEN StrptimeFail
    ELSE LET y == (s[1] - 48) * 1000 + (s[2] - 48) * 100 + (s[3] - 48) * 10 + (s[4] - 48)
             mtok == SubSeq(s, 6, Len(s))
         IN IF ~MonthToken(mtok) \/ y < 1 THEN StrptimeFail
            ELSE [ok |-> TRUE, v |-> Dt(y * 10000 + TokenVal(mtok) * 100 + 1)]

\* the month_key a receipt adds its amount to, or '' where it adds nothing: no
\* date, or a date strptime refuses
MonthKey(receipt) ==
    LET date_str == Get(receipt, "date")
    IN IF Truthy(date_str) /\ Strptime(date_str.s).ok
       THEN Strftime_Ym(Strptime(date_str.s).v)
       ELSE <<>>

MonthTotal(receipts, keys, month) ==
    Sum([i \in 1..Len(receipts) |-> IF keys[i] = month THEN Amount(receipts[i]) ELSE 0])

\* the row of one month, for the months strptime reads back
MonthRows(receipts, keys, months) ==
    [j \in 1..Len(months) |->
        [month |-> Strftime_bY(Strptime_Ym(months[j]).v),
         amount |-> MonthTotal(receipts, keys, months[j]),
         date_sort |-> months[j]]]

\* time_series_aggregation without the closing sorted(): the rows in the order
\* the months were first met
time_series_aggregation_Unsorted(receipts) ==
    CHOOSE r \in
      {MonthRows(receipts, keys, SelectSeq(months, LAMBDA m : Strptime_Ym(m).ok)) :
          keys \in {[i \in 1..Len(receipts) |-> MonthKey(receipts[i])]},
          months \in {DistinctInOrder(SelectSeq(
                          [i \in 1..Len(receipts) |-> MonthKey(receipts[i])],
                          LAMBDA k : k # <<>>))}} : TRUE

\* time_series_aggregation(receipts): the rows sorted by date_sort, a str
time_series_aggregation(receipts) ==
    CHOOSE r \in
      {[i \in 1..Len(sorted) |-> sorted[i].x] :
          sorted \in
            {StableSort([j \in 1..Len(rows) |-> [k |-> Str(rows[j].date_sort), x |-> rows[j]]]) :
                rows \in
                  {MonthRows(receipts, keys, SelectSeq(months, LAMBDA m : Strptime_Ym(m).ok)) :
                      keys \in {[i \in 1..Len(receipts) |-> MonthKey(receipts[i])]},
                      months \in {DistinctInOrder(SelectSeq(
                                      [i \in 1..Len(receipts) |-> MonthKey(receipts[i])],
                                      LAMBDA k : k # <<>>))}}}} : TRUE

\* data[lo:hi]: an index below 0 counts from the end, and both are clipped
PySlice(seq, lo, hi) ==
    LET from == IF lo < 0 THEN (IF lo + Len(seq) < 0 THEN 0 ELSE lo + Len(seq))
                ELSE IF lo > Len(seq) THEN Len(seq) ELSE lo
        to == IF hi < 0 THEN (IF hi + Len(seq) < 0 THEN 0 ELSE hi + Len(seq))
              ELSE IF hi > Len(seq) THEN Len(seq) ELSE hi
    IN SubSeq(seq, from + 1, to)

\* round(sum(window) / window_size, 2) for window_size # 0
WindowAverage(window, window_size) ==
    IF window_size > 0 THEN RoundDiv(Sum(window), window_size)
    ELSE RoundDiv(-Sum(window), -window_size)

\* moving_average(data, window_size) on the list series: the division by a window_size of 0 raises
\* in the first pass of the loop, which range(len(data) + 1) always has
moving_average(series, window_size) ==
    IF Len(series) < window_size THEN Ok(series)
    ELSE IF window_size = 0 THEN Raise("ZeroDivisionError")
    ELSE Ok([i \in 1..(Len(series) - window_size + 1) |->
                WindowAverage(PySlice(series, i - 1, i - 1 + window_size), window_size)])

\* amounts[:len(amounts)//2] and amounts[len(amounts)//2:]
first_half(amounts) == SubSeq(amounts, 1, Len(amounts) \div 2)

second_half(amounts) == SubSeq(amounts, (Len(amounts) \div 2) + 1, Len(amounts))

\* growth_rate as the fraction num / den, den > 0:
\* (second_avg - first_avg) / first_avg * 100 if first_avg > 0 else 0
growth_rate(first, second) ==
    IF first # <<>> /\ Sum(first) > 0
    THEN [num |-> (Sum(second) * Len(first) - Sum(first) * Len(second)) * 100,
          den |-> Sum(first) * Len(second)]
    ELSE [num |-> 0, den |-> 1]

\* the trend with the thresholds counted in: a growth rate of exactly 5 is
\* increasing, one of exactly -5 decreasing
trend_Inclusive(g) ==
    IF g.num >= 5 * g.den THEN "increasing"
    ELSE IF g.num <= -5 * g.den THEN "decreasing"
    ELSE "stable"

\* 'increasing' if growth_rate > 5 else 'decreasing' if growth_rate < -5 else 'stable'
trend(g) ==
    IF g.num > 5 * g.den THEN "increasing"
    ELSE IF g.num < -5 * g.den THEN "decreasing"
    ELSE "stable"

\* calculate_trends(monthly_data)
calculate_trends(monthly_data) ==
    IF Len(monthly_data) < 2 THEN [trend |-> "insufficient_data", growth_rate |-> 0]
    ELSE CHOOSE r \in
           {[trend |-> trend(g),
             growth_rate |-> RoundDiv(g.num * 100, g.den),
             moving_average |-> moving_average(amounts, 3).val] :
               g \in {growth_rate(first_half(amounts), second_half(amounts)) :
                         amounts \in {[i \in 1..Len(monthly_data) |-> monthly_data[i].amount]}},
               amounts \in {[i \in 1..Len(monthly_data) |-> monthly_data[i].amount]}} : TRUE

----------------------------------------------------------------------------
\* ComplexQueryEngine

search_fields == <<"vendor", "category", "description", "extracted_text">>

\* if filters.get('keyword'): keyword_search over the four text fields
KeywordStage(items, f) ==
    IF Truthy(f.keyword) THEN Ok(keyword_search(items, f.keyword.s, search_fields))
    ELSE Ok(items)

\* if filters.get('vendor'): r.get('vendor', '').lower().find(...) != -1; the
\* default '' is used only when the key is missing, and None has no lower()
VendorStage(items, f) ==
    IF ~Truthy(f.vendor) THEN Ok(items)
    ELSE IF \E i \in 1..Len(items) : GetOr(items[i], "vendor", Str(<<>>)).t # "str"
         THEN Raise("AttributeError")
    ELSE Ok(SelectSeq(items, LAMBDA r :
                Contains(Lower(GetOr(r, "vendor", Str(<<>>)).s), Lower(f.vendor.s))))

\* if filters.get('category'): r.get('category') == filters['category']
CategoryStage(items, f) ==
    IF Truthy(f.category) THEN Ok(SelectSeq(items, LAMBDA r : Get(r, "category") = f.category))
    ELSE Ok(items)

\* if filters.get('date_from') or filters.get('date_to'): range_search on 'date'
DateStage(items, f) ==
    IF Truthy(f.date_from) \/ Truthy(f.date_to)
    THEN range_search(items, "date", f.date_from, f.date_to)
    ELSE Ok(items)

\* if amount_min is not None or amount_max is not None: range_search on 'amount'
AmountStage(items, f) ==
    IF f.amount_min # None \/ f.amount_max # None
    THEN range_search(items, "amount", f.amount_min, f.amount_max)
    ELSE Ok(items)

\* if sort_options.get('field'): timsort, reverse unless direction is 'asc'
SortStage(items, s) ==
    IF s.field # "" THEN timsort(items, s.field, s.direction = "desc")
    ELSE Ok(items)

\* the filters in the order execute_query applies them
Stage(i, items, f) ==
    CASE i = 1 -> KeywordStage(items, f)
      [] i = 2 -> VendorStage(items, f)
      [] i = 3 -> CategoryStage(items, f)
      [] i = 4 -> DateStage(items, f)
      [] OTHER -> AmountStage(items, f)

\* filters i..5 applied to what the filters before gave; one that raises ends
\* the call
RECURSIVE FilterStages(_, _, _)
FilterStages(i, prev, f) ==
    IF i > 5 \/ prev.exc # "" THEN prev
    ELSE CHOOSE r \in {FilterStages(i + 1, nxt, f) : nxt \in {Stage(i, prev.val, f)}} : TRUE

\* "Generate aggregated statistics" and the four views of the return statement,
\* all computed on filtered_data as the sort left it
Aggregates(filtered_data) ==
    [stats |-> calculate_basic_stats([i \in 1..Len(filtered_data) |-> Amount(filtered_data[i])]),
     vendor_stats |-> vendor_aggregation(filtered_data),
     category_stats |-> category_aggregation(filtered_data),
     monthly_stats |-> time_series_aggregation(filtered_data)]

\* the bundle (filtered is the working set the sort was given), or the exception
\* raised, which leaves no bundle
Bundle(filtered, sorted) ==
    CHOOSE r \in
      {[status |-> IF sorted.exc = "" THEN "returned" ELSE "raised",
        exc |-> sorted.exc,
        filtered |-> filtered.val,
        data |-> sorted.val,
        count |-> Len(sorted.val),
        stats |-> agg.stats,
        vendor_stats |-> agg.vendor_stats,
        category_stats |-> agg.category_stats,
        monthly_stats |-> agg.monthly_stats] :
           agg \in {Aggregates(sorted.val)}} : TRUE

\* "Apply sorting" and the return, from the outcome of the filters
SortAndReturn(filtered, s) ==
    CHOOSE r \in {Bundle(filtered, sorted) :
                     sorted \in {IF filtered.exc # "" THEN filtered
                                 ELSE SortStage(filtered.val, s)}} : TRUE

\* execute_query(data, filters, sort_options)
execute_query(d, f, s) ==
    CHOOSE r \in {SortAndReturn(filtered, s) :
                     filtered \in {FilterStages(1, Ok(d), f)}} : TRUE

----------------------------------------------------------------------------
\* Inputs: text as character codes

Date_2024_01_05 == <<50, 48, 50, 52, 45, 48, 49, 45, 48, 53>>

Date_2024_02_10 == <<50, 48, 50, 52, 45, 48, 50, 45, 49, 48>>

Date_2024_02_15 == <<50, 48, 50, 52, 45, 48, 50, 45, 49, 53>>

\* '2024-13-01': the shape of a date, and no date
Date_2024_13_01 == <<50, 48, 50, 52, 45, 49, 51, 45, 48, 49>>

\* 'N/A'
Text_NA == <<78, 47, 65>>

Text_Costco == <<67, 111, 115, 116, 99, 111>>

Text_Shell == <<83, 104, 101, 108, 108>>

Text_Fuel == <<70, 117, 101, 108>>

Text_Food == <<70, 111, 111, 100>>

\* 'Shell gas'
Text_Shell_gas == <<83, 104, 101, 108, 108, 32, 103, 97, 115>>

Text_COSTCO == <<67, 79, 83, 84, 67, 79>>

Text_cost == <<99, 111, 115, 116>>

Text_SHELL == <<83, 72, 69, 76, 76>>

Text_on == <<111, 110>>

Text_zz == <<122, 122>>

Text_co == <<99, 111>>

\* the sequences over S of length at most n
SeqsUpTo(S, n) == UNION {[1..k -> S] : k \in 0..n}

\* a record dict as get_receipts builds it; the engine reads the fields below
Rec(vendor, date, amount, category, description, extracted_text, upload_date) ==
    [id |-> 1, vendor |-> vendor, date |-> date, amount |-> amount,
     category |-> category, description |-> description,
     extracted_text |-> extracted_text, upload_date |-> upload_date]

\* the records of a sequence numbered by their place, as distinct rows are
WithIds(seq) == [i \in 1..Len(seq) |-> [seq[i] EXCEPT !.id = i]]

\* the filters dict of get_receipts with no parameter given
NoFilters ==
    [keyword |-> None, vendor |-> None, category |-> None, date_from |-> None,
     date_to |-> None, amount_min |-> None, amount_max |-> None]

\* sort_options naming no field: no sort
NoSort == [field |-> "", direction |-> "desc"]

\* SortOptions: the fields and directions the allow-list admits
SortFields == {"date", "amount", "vendor", "category", "upload_date"}

AllowedSorts == [field : SortFields, direction : {"asc", "desc"}]

\* no call in progress
Idle ==
    [status |-> "idle", exc |-> "", filtered |-> <<>>, data |-> <<>>, count |-> 0,
     stats |-> [sum |-> 0, mean |-> 0, median |-> 0, mode |-> 0],
     vendor_stats |-> <<>>, category_stats |-> <<>>, monthly_stats |-> <<>>]

----------------------------------------------------------------------------
\* The engine called on a record sequence

InitOn(Inputs) ==
    /\ data \in Inputs
    /\ filters = NoFilters
    /\ sort_options = NoSort
    /\ result = Idle

\* one call of execute_query; the input sequence is copied, never changed
ExecuteQueryOn(Filters, Sorts) ==
    /\ result.status = "idle"
    /\ \E f \in Filters, s \in Sorts :
          /\ filters' = f
          /\ sort_options' = s
          /\ result' = execute_query(data, f, s)
    /\ UNCHANGED data

\* the caller takes the bundle (or the exception); the engine keeps nothing
Return ==
    /\ result.status # "idle"
    /\ result' = Idle
    /\ filters' = NoFilters
    /\ sort_options' = NoSort
    /\ UNCHANGED data

----------------------------------------------------------------------------
\* Date range filter alone: records that differ in their date

DateValues ==
    {None, Str(Date_2024_01_05), Str(Date_2024_02_10), Str(Date_2024_02_15),
     Str(Date_2024_13_01), Str(Text_NA)}

DateRecords == {Rec(Str(Text_Costco), d, Num(5), None, None, None, Dt(20240301)) : d \in DateValues}

DateBounds ==
    {None, Str(Date_2024_01_05), Str(Date_2024_02_10), Str(Date_2024_02_15),
     Str(Date_2024_13_01), Str(Text_NA)}

DateFilters == {[NoFilters EXCEPT !.date_from = lo, !.date_to = hi] : lo, hi \in DateBounds}

InitDate == InitOn({WithIds(p) : p \in SeqsUpTo(DateRecords, MaxLen)})

ExecuteQueryDate == ExecuteQueryOn(DateFilters, {NoSort})

NextDate == ExecuteQueryDate \/ Return

SpecDate == InitDate /\ [][NextDate]_vars

----------------------------------------------------------------------------
\* Keyword and vendor filters alone: records that differ in their text fields

\* description and extracted_text of a record
FreeTexts ==
    {<<None, None>>, <<Absent, Absent>>, <<Str(Text_Shell_gas), None>>,
     <<None, Str(Text_COSTCO)>>}

TextRecords ==
    {Rec(v, Str(Date_2024_01_05), Num(5), c, x[1], x[2], Dt(20240301)) :
        v \in {Absent, None, Str(Text_Costco), Str(Text_Shell)},
        c \in {Absent, None, Str(Text_Fuel)},
        x \in FreeTexts}

TextFilters ==
    {[NoFilters EXCEPT !.keyword = k] :
        k \in {Str(Text_cost), Str(Text_SHELL), Str(Text_on), Str(Text_zz)}}
    \cup {[NoFilters EXCEPT !.vendor = v] : v \in {Str(Text_co), Str(Text_SHELL)}}
    \cup {[NoFilters EXCEPT !.keyword = Str(Text_SHELL), !.vendor = Str(Text_co)], NoFilters}

InitText == InitOn({WithIds(p) : p \in SeqsUpTo(TextRecords, MaxLenAll)})

ExecuteQueryText == ExecuteQueryOn(TextFilters, {NoSort})

NextText == ExecuteQueryText \/ Return

SpecText == InitText /\ [][NextText]_vars

----------------------------------------------------------------------------
\* The sort alone: records that differ in the sort fields

\* the category and upload time the rows of a vendor carry
CategoryOf(v) ==
    CASE v = Str(Text_Costco) -> Str(Text_Food)
      [] v = Str(Text_Shell) -> Str(Text_Fuel)
      [] OTHER -> None

UploadOf(v) ==
    CASE v = Str(Text_Costco) -> Dt(20240301)
      [] v = Str(Text_Shell) -> Dt(20240302)
      [] OTHER -> None

\* the date the rows of an amount carry
DateOf(a) ==
    CASE a = Num(0) -> Str(Text_NA)
      [] a = Num(5) -> Str(Date_2024_01_05)
      [] a = Num(20) -> Str(Date_2024_02_10)
      [] OTHER -> None

SortRecords ==
    {Rec(v, DateOf(a), a, CategoryOf(v), None, None, UploadOf(v)) :
        v \in {None, Str(Text_Costco), Str(Text_Shell)},
        a \in {None, Num(0), Num(5), Num(20)}}

InitSort == InitOn({WithIds(p) : p \in SeqsUpTo(SortRecords, MaxLen)})

ExecuteQuerySort == ExecuteQueryOn({NoFilters}, AllowedSorts \cup {NoSort})

NextSort == ExecuteQuerySort \/ Return

SpecSort == InitSort /\ [][NextSort]_vars

----------------------------------------------------------------------------
\* The whole query: every filter and the sort together, on rows that may repeat

Rows ==
    {Rec(Str(Text_Costco), Str(Date_2024_01_05), Num(20), Str(Text_Food), None,
         Str(Text_COSTCO), Dt(20240301)),
     Rec(Str(Text_Shell), Str(Date_2024_02_10), Num(5), Str(Text_Fuel),
         Str(Text_Shell_gas), None, Dt(20240302)),
     Rec(Str(Text_Shell), Str(Date_2024_02_15), Num(20), Str(Text_Fuel), None, None,
         Dt(20240302)),
     Rec(Str(Text_Costco), Str(Text_NA), Num(0), None, None, None, Dt(20240301)),
     Rec(None, None, None, None, None, None, Dt(20240303)),
     Rec(Absent, Absent, Absent, Absent, Absent, Absent, Dt(20240303))}

DateRanges ==
    {<<None, None>>, <<Str(Date_2024_01_05), None>>, <<None, Str(Date_2024_02_10)>>,
     <<Str(Date_2024_01_05), Str(Date_2024_02_10)>>}

AmountRanges == {<<None, None>>, <<Num(5), None>>, <<None, Num(5)>>, <<Num(0), Num(20)>>}

Queries ==
    {[keyword |-> k, vendor |-> v, category |-> c, date_from |-> dr[1],
      date_to |-> dr[2], amount_min |-> ar[1], amount_max |-> ar[2]] :
        k \in {None, Str(Text_SHELL)}, v \in {None, Str(Text_co)},
        c \in {None, Str(Text_Fuel)}, dr \in DateRanges, ar \in AmountRanges}

Sorts == AllowedSorts \cup {NoSort}

Init == InitOn(SeqsUpTo(Rows, MaxLenAll))

ExecuteQuery == ExecuteQueryOn(Queries, Sorts)

Next == ExecuteQuery \/ Return

Spec == Init /\ [][Next]_vars

----------------------------------------------------------------------------
\* Properties of execute_query

\* how often row r occurs in seq
Occurrences(seq, r) == Cardinality({i \in DOMAIN seq : seq[i] = r})

\* C1: whenever execute_query returns, count is the length of data, and data is a
\* sub-multiset of the input: no record occurs in data more often than in the input.
C1_CountAndSubMultiset ==
    result.status = "returned" =>
        /\ result.count = Len(result.data)
        /\ \A i \in DOMAIN result.data :
              Occurrences(result.data, result.data[i]) <= Occurrences(data, result.data[i])

\* a call with a keyword that kept one of two rows
C1_Witness ==
    /\ result.status = "returned"
    /\ Truthy(filters.keyword)
    /\ Len(data) = 2
    /\ result.count = 1

\* the dates that are valid YYYY-MM-DD dates
ValidDateTexts == {Date_2024_01_05, Date_2024_02_10, Date_2024_02_15}

HasValidDate(r) == r.date.t = "str" /\ r.date.s \in ValidDateTexts

\* a bound that is not supplied, or is a valid YYYY-MM-DD date
WellFormedBound(b) == b = None \/ (b.t = "str" /\ b.s \in ValidDateTexts)

\* date_from or date_to is supplied: the date range filter runs
DateFilterOn == Truthy(filters.date_from) \/ Truthy(filters.date_to)

\* the record is one of the returned data
Returned(r) == \E p \in DOMAIN result.data : result.data[p] = r

\* date d lies within the bounds, both inclusive (YYYY-MM-DD text orders as dates do)
WithinBounds(d, lo, hi) ==
    /\ lo = None \/ ~StrLt(d.s, lo.s)
    /\ hi = None \/ ~StrLt(hi.s, d.s)

\* C2: with well-formed bounds, the date range filter keeps a record that has a
\* valid date if and only if (date_from is absent or date >= date_from) and
\* (date_to is absent or date <= date_to); a record dated exactly date_from or
\* exactly date_to is kept.
C2_DateRangeInclusive ==
    (/\ result.status # "idle"
     /\ DateFilterOn
     /\ WellFormedBound(filters.date_from)
     /\ WellFormedBound(filters.date_to)) =>
        \A i \in DOMAIN data :
            HasValidDate(data[i]) =>
                (Returned(data[i]) <=>
                    WithinBounds(data[i].date, filters.date_from, filters.date_to))

\* The comparison of C2 itself, in the calls the filter returns from: there a record
\* with a valid date is kept exactly when it lies within the inclusive bounds.
DateRangeInclusiveWhereReturned == result.status = "returned" => C2_DateRangeInclusive

\* C3: whenever date_from or date_to is supplied (here: well-formed), the date range
\* filter does not raise, and no record whose date is missing or is not a valid
\* YYYY-MM-DD date appears in its result, whatever records precede or follow it.
C3_InvalidDatesExcluded ==
    (/\ result.status # "idle"
     /\ DateFilterOn
     /\ WellFormedBound(filters.date_from)
     /\ WellFormedBound(filters.date_to)) =>
        /\ result.status = "returned"
        /\ \A p \in DOMAIN result.data : HasValidDate(result.data[p])

\* a supplied bound that is not a valid YYYY-MM-DD date
MalformedBound(b) == Truthy(b) /\ ~WellFormedBound(b)

\* C4: when a supplied date range bound is not a valid YYYY-MM-DD date, the date
\* range filter signals an error to the caller; it does not return a normal
\* (possibly empty) record list.
C4_MalformedBoundSignalled ==
    (/\ result.status # "idle"
     /\ MalformedBound(filters.date_from) \/ MalformedBound(filters.date_to)
     /\ \E i \in DOMAIN data : HasValidDate(data[i])) =>
        result.status = "raised"

\* at least one of the four searched fields holds text that contains the keyword,
\* both compared case-insensitively; a field with no value contributes no text
HoldsKeyword(r, keyword) ==
    \E i \in DOMAIN search_fields :
        /\ r[search_fields[i]].t = "str"
        /\ Contains(Lower(r[search_fields[i]].s), Lower(keyword))

\* C5: keyword_search returns, in input order and each at most once, exactly the
\* records for which at least one of vendor, category, description and
\* extracted_text holds text containing the keyword, case-insensitively; a field
\* that has no value contributes no text.
C5_KeywordMatchesText ==
    (/\ result.status = "returned"
     /\ Truthy(filters.keyword)
     /\ ~Truthy(filters.vendor)) =>
        result.data = SelectSeq(data, LAMBDA r : HoldsKeyword(r, filters.keyword.s))

\* C6: when a non-empty vendor filter term is supplied, a record whose vendor key
\* holds null is treated as having the empty vendor: the filter completes without
\* raising and the record is left out of the result.
C6_NullVendorLeftOut ==
    (result.status # "idle" /\ Truthy(filters.vendor)) =>
        /\ result.status = "returned"
        /\ \A p \in DOMAIN result.data : result.data[p].vendor # None

\* C7: every execute_query call returns a bundle and raises nothing, for records
\* whose fields may have no value or hold an unparsable date, well-formed range
\* bounds and an allow-listed sort field with direction asc or desc.
C7_NeverRaises == result.status # "raised"

\* the sort was asked for
SortOn == sort_options.field # ""

\* the key the sort of this call gives a record
KeyOf(r) == sort_key(r, sort_options.field, sort_options.direction = "desc")

\* C8: the sort is stable in both directions: two records of the filtered sequence
\* whose sort keys are equal stand in the returned data in the order they had in the
\* filtered sequence, for direction asc and for direction desc.
C8_SortStable ==
    (result.status = "returned" /\ SortOn) =>
        \A i, j \in DOMAIN result.filtered :
            (i < j /\ KeyOf(result.filtered[i]) = KeyOf(result.filtered[j])) =>
                \E p, q \in DOMAIN result.data :
                    /\ p < q
                    /\ result.data[p] = result.filtered[i]
                    /\ result.data[q] = result.filtered[j]

\* a descending sort that moved records and met two with equal keys
C8_Witness ==
    /\ result.status = "returned"
    /\ SortOn
    /\ sort_options.direction = "desc"
    /\ result.data # result.filtered
    /\ \E i, j \in DOMAIN result.filtered :
          i < j /\ KeyOf(result.filtered[i]) = KeyOf(result.filtered[j])

\* C9: sorting by amount orders the records numerically: with direction asc the
\* amounts of the records in data that have an amount are non-decreasing, with
\* direction desc non-increasing, for every non-negative amount.
C9_AmountOrdered ==
    (result.status = "returned" /\ sort_options.field = "amount") =>
        \A p, q \in DOMAIN result.data :
            (p < q /\ result.data[p].amount.t = "num" /\ result.data[q].amount.t = "num") =>
                IF sort_options.direction = "asc"
                THEN result.data[p].amount.n <= result.data[q].amount.n
                ELSE result.data[p].amount.n >= result.data[q].amount.n

\* the record has no value for the sort field
MissingSortValue(r) == Get(r, sort_options.field) = None

\* C10: for each allow-listed sort field and direction desc, the sort completes and
\* every record with no value for the sort field is placed after all records that
\* have a value for it.
C10_MissingLastDescending ==
    (result.status # "idle" /\ SortOn /\ sort_options.direction = "desc") =>
        /\ result.status = "returned"
        /\ \A p, q \in DOMAIN result.data :
              (p < q /\ MissingSortValue(result.data[p])) => MissingSortValue(result.data[q])

----------------------------------------------------------------------------
\* Properties of the aggregates

\* the four aggregate views of a bundle
AggregatesOf(r) ==
    [stats |-> r.stats, vendor_stats |-> r.vendor_stats,
     category_stats |-> r.category_stats, monthly_stats |-> r.monthly_stats]

\* C11: the aggregates of a query do not depend on the sort: whenever a call
\* returns, every sort option (no sort, or an allow-listed field with asc or desc)
\* under which the same records and filters return gives the same stats,
\* vendor_stats, category_stats and monthly_stats, rows in the same order.
C11_AggregatesIgnoreSort ==
    result.status = "returned" =>
        \A s \in AllowedSorts \cup {NoSort} :
            \A other \in {execute_query(data, filters, s)} :
                other.status = "returned" => AggregatesOf(other) = AggregatesOf(result)

\* the part of the aggregates no sort changes: sum, mean and median, the monthly
\* rows, and the rows of the grouped views taken as sets
SortIndependentAggregates ==
    result.status = "returned" =>
        \A other \in {execute_query(data, filters, NoSort)} :
            /\ other.stats.sum = result.stats.sum
            /\ other.stats.mean = result.stats.mean
            /\ other.stats.median = result.stats.median
            /\ other.monthly_stats = result.monthly_stats
            /\ {other.vendor_stats[i] : i \in DOMAIN other.vendor_stats}
                  = {result.vendor_stats[i] : i \in DOMAIN result.vendor_stats}
            /\ {other.category_stats[i] : i \in DOMAIN other.category_stats}
                  = {result.category_stats[i] : i \in DOMAIN result.category_stats}

\* the group a record belongs to by its field: the literal where it has no value
GroupOf(r, field, literal) == IF Get(r, field) = None THEN Str(literal) ELSE r[field]

\* every record of data that has no value for field is counted in the row of
\* rows whose key is the literal: that row exists and counts the records of its group
CountedUnderLiteral(rows, field, literal) ==
    (\E p \in DOMAIN result.data : Get(result.data[p], field) = None) =>
        \E j \in DOMAIN rows :
            /\ rows[j][field] = Str(literal)
            /\ rows[j].count = Cardinality({p \in DOMAIN result.data :
                                   GroupOf(result.data[p], field, literal) = Str(literal)})

\* C12: in the grouped views every record with no vendor value is counted in the
\* vendor_stats row whose vendor is 'Unknown', and every record with no category
\* value in the category_stats row whose category is 'Uncategorized', whether the
\* record holds the key with a null value or lacks the key.
C12_MissingGroupedUnderLiteral ==
    result.status = "returned" =>
        /\ CountedUnderLiteral(result.vendor_stats, "vendor", Text_Unknown)
        /\ CountedUnderLiteral(result.category_stats, "category", Text_Uncategorized)

\* the same for the records that lack the key, where no record holds a null
MissingKeyGroupedUnderLiteral ==
    (/\ result.status = "returned"
     /\ \A p \in DOMAIN result.data :
           result.data[p].vendor # None /\ result.data[p].category # None)
        => C12_MissingGroupedUnderLiteral

----------------------------------------------------------------------------
\* The functions on a number series, called on their own: data is the list of
\* floats handed in, in hundredths, and result the call and what it gave

\* Largest window_size handed to moving_average.
MaxWindow == 4

\* whole amounts
SeriesAmounts == {0, 1000, 2000, 3000, 9500, 10000, 10500, 10600}

WindowSizes == (0 - 1)..MaxWindow

InitSeries == InitOn(SeqsUpTo(SeriesAmounts, MaxLen))

\* what a call on the series gave
Called(name, window_size, outcome) ==
    [status |-> IF outcome.exc = "" THEN "returned" ELSE "raised",
     exc |-> outcome.exc, call |-> name, window_size |-> window_size, val |-> outcome.val]

CalculateBasicStats ==
    /\ result.status = "idle"
    /\ result' = Called("calculate_basic_stats", 0, Ok(calculate_basic_stats(data)))
    /\ UNCHANGED <<data, filters, sort_options>>

MovingAverage ==
    /\ result.status = "idle"
    /\ \E window_size \in WindowSizes :
          result' = Called("moving_average", window_size, moving_average(data, window_size))
    /\ UNCHANGED <<data, filters, sort_options>>

\* monthly_data: rows of which calculate_trends reads the amount
CalculateTrends ==
    /\ result.status = "idle"
    /\ result' = Called("calculate_trends", 0,
                        Ok(calculate_trends([i \in 1..Len(data) |-> [amount |-> data[i]]])))
    /\ UNCHANGED <<data, filters, sort_options>>

NextSeries == CalculateBasicStats \/ MovingAverage \/ CalculateTrends \/ Return

SpecSeries == InitSeries /\ [][NextSeries]_vars

----------------------------------------------------------------------------
\* Properties of the functions on a number series

\* the call that has just ended
CallOf(name) == result.status # "idle" /\ result.call = name

\* one amount of the series is more frequent than every other
SingleMode(amounts) ==
    \E i \in 1..Len(amounts) :
        \A j \in 1..Len(amounts) :
            amounts[j] # amounts[i] => Frequency(amounts, amounts[j]) < Frequency(amounts, amounts[i])

\* C13: calculate_basic_stats reports the median as the mode whenever no single
\* amount has a strictly highest frequency (the highest frequency is shared or all
\* amounts are distinct); for amounts [10, 20, 30] the reported mode is 20.
C13_ModeFallsBackToMedian ==
    (CallOf("calculate_basic_stats") /\ data # <<>> /\ ~SingleMode(data)) =>
        result.val.mode = result.val.median

\* where one amount is the most frequent, the mode is that amount
SingleModeReported ==
    (CallOf("calculate_basic_stats") /\ data # <<>> /\ SingleMode(data)) =>
        \A j \in 1..Len(data) : Frequency(data, data[j]) <= Frequency(data, result.val.mode)

\* the series has an odd length of three or more
OddSeries == Len(data) >= 3 /\ Len(data) % 2 = 1

\* C14: for a monthly series of odd length n >= 3 calculate_trends takes the first
\* (n+1)/2 amounts as the first half and the remaining (n-1)/2 as the second half,
\* and the growth rate it reports is that of the means of these two halves.
C14_FirstHalfHoldsExtra ==
    (CallOf("calculate_trends") /\ OddSeries) =>
        /\ first_half(data) = SubSeq(data, 1, (Len(data) + 1) \div 2)
        /\ second_half(data) = SubSeq(data, ((Len(data) + 1) \div 2) + 1, Len(data))
        /\ \A g \in {growth_rate(SubSeq(data, 1, (Len(data) + 1) \div 2),
                                 SubSeq(data, ((Len(data) + 1) \div 2) + 1, Len(data)))} :
               result.val.growth_rate = RoundDiv(g.num * 100, g.den)

\* what the code does: the second half holds the extra element
SecondHalfHoldsExtra ==
    (CallOf("calculate_trends") /\ OddSeries) =>
        /\ first_half(data) = SubSeq(data, 1, (Len(data) - 1) \div 2)
        /\ second_half(data) = SubSeq(data, ((Len(data) - 1) \div 2) + 1, Len(data))

\* C15: calculate_trends classifies every series.  Fewer than two data points give
\* insufficient_data with growth rate 0.  Otherwise, with firstMean and secondMean
\* the means of the two halves, the growth rate is
\* (secondMean - firstMean) / firstMean * 100 when firstMean > 0 and 0 when
\* firstMean is 0 (reported rounded to two decimals), and the trend is increasing
\* exactly when the growth rate is above 5, decreasing exactly when it is below -5,
\* and stable otherwise.  Means are compared as fractions: with S1, S2 the sums and
\* n1, n2 the lengths of the halves, the growth rate is
\* (S2 * n1 - S1 * n2) * 100 / (S1 * n2).
C15_TrendClassified ==
    CallOf("calculate_trends") =>
        IF Len(data) < 2
        THEN result.val.trend = "insufficient_data" /\ result.val.growth_rate = 0
        ELSE LET n1 == Len(data) \div 2
                 n2 == Len(data) - n1
                 S1 == Sum(SubSeq(data, 1, n1))
                 S2 == Sum(SubSeq(data, n1 + 1, Len(data)))
                 num == IF S1 > 0 THEN (S2 * n1 - S1 * n2) * 100 ELSE 0
                 den == IF S1 > 0 THEN S1 * n2 ELSE 1
             IN /\ result.val.growth_rate = RoundDiv(num * 100, den)
                /\ (result.val.trend = "increasing") = (num > 5 * den)
                /\ (result.val.trend = "decreasing") = (num < -5 * den)
                /\ (result.val.trend = "stable") = (num <= 5 * den /\ num >= -5 * den)

\* halves [100] and [105]: a growth rate of exactly 5, classified stable
C15_Witness ==
    /\ CallOf("calculate_trends")
    /\ data = <<10000, 10500>>
    /\ result.val.growth_rate = 500
    /\ result.val.trend = "stable"

\* the mean of data[i .. i + window_size - 1], i counted from 1, rounded
WindowMean(i, window_size) == RoundDiv(Sum(SubSeq(data, i, i + window_size - 1)), window_size)

\* C16: for every integer window size moving_average returns a value: data
\* unchanged when len(data) < window_size, and otherwise len(data) - window_size + 1
\* values in input order, the i-th the mean of data[i .. i + window_size - 1]
\* where the window has elements; window sizes 0 and 1 are among them.
C16_MovingAverageTotal ==
    CallOf("moving_average") =>
        /\ result.status = "returned"
        /\ IF Len(data) < result.window_size THEN result.val = data
           ELSE /\ Len(result.val) = Len(data) - result.window_size + 1
                /\ result.window_size >= 1 =>
                      \A i \in 1..Len(result.val) : result.val[i] = WindowMean(i, result.window_size)

\* the same for the window sizes of 1 and more
MovingAverageOfPositiveWindow ==
    (CallOf("moving_average") /\ result.window_size >= 1) => C16_MovingAverageTotal

----------------------------------------------------------------------------
\* The monthly view: records that differ in date and amount, no filter, no sort

Date_2023_12_31 == <<50, 48, 50, 51, 45, 49, 50, 45, 51, 49>>

MonthlyDates ==
    {None, Str(Text_NA), Str(Date_2024_13_01), Str(Date_2023_12_31), Str(Date_2024_01_05),
     Str(Date_2024_02_10), Str(Date_2024_02_15)}

MonthlyRecords ==
    {Rec(Str(Text_Costco), d, a, Str(Text_Food), None, None, Dt(20240301)) :
        d \in MonthlyDates, a \in {None, Num(5)}}

InitMonthly == InitOn({WithIds(p) : p \in SeqsUpTo(MonthlyRecords, MaxLen)})

ExecuteQueryMonthly == ExecuteQueryOn({NoFilters}, {NoSort})

NextMonthly == ExecuteQueryMonthly \/ Return

SpecMonthly == InitMonthly /\ [][NextMonthly]_vars

----------------------------------------------------------------------------
\* Properties of the monthly view

\* the text is a date of the calendar written YYYY-MM-DD
IsCalendarDate(s) ==
    /\ Len(s) = 10
    /\ ReMatchDate(s)
    /\ TokenVal(SubSeq(s, 6, 7)) \in 1..12
    /\ TokenVal(SubSeq(s, 9, 10)) \in
          1..DaysInMonth(TokenVal(SubSeq(s, 1, 2)) * 100 + TokenVal(SubSeq(s, 3, 4)),
                         TokenVal(SubSeq(s, 6, 7)))

\* the year-month of a record that has a valid date, '' for any other record
YearMonth(r) ==
    IF r.date.t = "str" /\ IsCalendarDate(r.date.s) THEN SubSeq(r.date.s, 1, 7) ELSE <<>>

\* the amount of a record in hundredths, 0 where it is missing
AmountOrZero(r) == IF r.amount.t = "num" THEN 100 * r.amount.n ELSE 0

\* C17: the monthly view holds exactly one row per distinct year-month among the
\* returned records that have a valid YYYY-MM-DD date; a row's amount is the sum
\* of the amounts of the records of its month, a missing amount counting 0; the
\* rows ascend by date_sort; a record with a missing or unparsable date adds no
\* row and no amount, and is still counted in stats, vendor_stats and
\* category_stats.
C17_MonthlyRows ==
    result.status = "returned" =>
        LET rows == result.monthly_stats
            months == {YearMonth(result.data[p]) : p \in DOMAIN result.data} \ {<<>>}
        IN /\ {rows[j].date_sort : j \in DOMAIN rows} = months
           /\ Len(rows) = Cardinality(months)
           /\ \A j \in DOMAIN rows :
                 rows[j].amount =
                    Sum([p \in 1..Len(result.data) |->
                           IF YearMonth(result.data[p]) = rows[j].date_sort
                           THEN AmountOrZero(result.data[p]) ELSE 0])
           /\ \A j, k \in DOMAIN rows : j < k => StrLt(rows[j].date_sort, rows[k].date_sort)
           /\ result.stats.sum =
                 Sum([p \in 1..Len(result.data) |-> AmountOrZero(result.data[p])])
           /\ Sum([j \in 1..Len(result.vendor_stats) |-> result.vendor_stats[j].count])
                 = Len(result.data)
           /\ Sum([j \in 1..Len(result.category_stats) |-> result.category_stats[j].count])
                 = Len(result.data)

\* three records: a later month first, then a date that is no date, then an
\* earlier month, which the view puts first
C17_Witness ==
    /\ result.status = "returned"
    /\ Len(result.data) = 3
    /\ YearMonth(result.data[1]) # <<>>
    /\ result.data[2].date # None /\ YearMonth(result.data[2]) = <<>>
    /\ YearMonth(result.data[3]) # <<>>
    /\ StrLt(YearMonth(result.data[3]), YearMonth(result.data[1]))
    /\ Len(result.monthly_stats) = 2
    /\ result.monthly_stats[1].date_sort = YearMonth(result.data[3])

----------------------------------------------------------------------------
\* Properties of the grouped views

\* the rows partition the returned data by the group key of field: no two rows
\* share a key, each record's key is the key of exactly one row, each row counts
\* the records of its key, and the counts add up to count
Partitions(rows, field, literal) ==
    /\ \A j, k \in DOMAIN rows : rows[j][field] = rows[k][field] => j = k
    /\ \A p \in DOMAIN result.data :
          Cardinality({j \in DOMAIN rows :
                          rows[j][field] = GetOr(result.data[p], field, Str(literal))}) = 1
    /\ \A j \in DOMAIN rows :
          rows[j].count = Cardinality({p \in DOMAIN result.data :
                              GetOr(result.data[p], field, Str(literal)) = rows[j][field]})
    /\ Sum([j \in 1..Len(rows) |-> rows[j].count]) = result.count

\* C18: the rows of vendor_stats partition the returned data, and so do the rows
\* of category_stats: each record is counted in exactly one row of each view, no
\* two rows of a view share a group key, and the row counts of each view add up
\* to the returned count.
C18_GroupedViewsPartition ==
    result.status = "returned" =>
        /\ Partitions(result.vendor_stats, "vendor", Text_Unknown)
        /\ Partitions(result.category_stats, "category", Text_Uncategorized)

\* two records of one vendor and two categories: one vendor row that counts
\* both, two category rows
C18_Witness ==
    /\ result.status = "returned"
    /\ result.count = 2
    /\ Len(result.vendor_stats) = 1
    /\ result.vendor_stats[1].count = 2
    /\ Len(result.category_stats) = 2

----------------------------------------------------------------------------
\* Properties of the empty working set

\* the working set after the first k filters of this call, or the exception
RECURSIVE AfterStage(_)
AfterStage(k) ==
    IF k = 0 THEN Ok(data)
    ELSE CHOOSE r \in {(IF prev.exc # "" THEN prev ELSE Stage(k, prev.val, filters)) :
                          prev \in {AfterStage(k - 1)}} : TRUE

\* the input is empty, or some filter of this call has removed every record
WorkingSetEmptied == \E k \in 0..5 : AfterStage(k) = Ok(<<>>)

\* C19: when the filtered set is empty, because the input sequence is empty or
\* because a filter removed every record, execute_query raises nothing and returns
\* count 0, empty data, stats {sum: 0, mean: 0, median: 0, mode: 0} and empty
\* vendor_stats, category_stats and monthly_stats, whatever the remaining filters
\* and the sort option.
C19_EmptyWorkingSet ==
    (result.status # "idle" /\ WorkingSetEmptied) =>
        /\ result.status = "returned"
        /\ result.count = 0
        /\ result.data = <<>>
        /\ result.stats = [sum |-> 0, mean |-> 0, median |-> 0, mode |-> 0]
        /\ result.vendor_stats = <<>>
        /\ result.category_stats = <<>>
        /\ result.monthly_stats = <<>>

\* records came in, the keyword filter removed them all, and a range filter and
\* a sort were still to run
C19_Witness ==
    /\ result.status = "returned"
    /\ data # <<>>
    /\ Truthy(filters.keyword)
    /\ AfterStage(1) = Ok(<<>>)
    /\ Truthy(filters.date_from)
    /\ filters.amount_min # None
    /\ SortOn
    /\ result.count = 0

----------------------------------------------------------------------------
\* quicksort called on its own, with the amount key of the ascending sort

\* Longest list handed to quicksort.
MaxArr == 4

\* records whose keys are 5, 20 and, for no amount and for amount 0, inf
QuickRecords ==
    {Rec(Str(Text_Costco), DateOf(a), a, Str(Text_Food), None, None, Dt(20240301)) :
        a \in {None, Num(0), Num(5), Num(20)}}

InitQuick == InitOn({WithIds(p) : p \in SeqsUpTo(QuickRecords, MaxArr)})

Quicksort ==
    /\ result.status = "idle"
    /\ result' = Called("quicksort", 0, quicksort(data, "amount"))
    /\ UNCHANGED <<data, filters, sort_options>>

NextQuick == Quicksort \/ Return

SpecQuick == InitQuick /\ [][NextQuick]_vars

----------------------------------------------------------------------------
\* Properties of quicksort

\* the key of a record under the key function of the call
QuickKey(r) == sort_key(r, "amount", FALSE)

\* C20: for every finite list and a key function with totally ordered keys,
\* quicksort ends and returns a permutation of the list that is non-decreasing by
\* key and keeps elements of equal keys in their input order, so that its result
\* is that of the stable built-in sort (timsort with the same key, reverse false),
\* on sorted input and on input with duplicates too; the list itself is unchanged.
C20_QuicksortIsStableSort ==
    CallOf("quicksort") =>
        /\ result.status = "returned"
        /\ Len(result.val) = Len(data)
        /\ \A i \in DOMAIN data : Occurrences(result.val, data[i]) = Occurrences(data, data[i])
        /\ \A p, q \in DOMAIN result.val :
              p < q => ~PyLt(QuickKey(result.val[q]), QuickKey(result.val[p]))
        /\ \A i, j \in DOMAIN data :
              (i < j /\ QuickKey(data[i]) = QuickKey(data[j])) =>
                  \E p, q \in DOMAIN result.val :
                      p < q /\ result.val[p] = data[i] /\ result.val[q] = data[j]
        /\ result.val = timsort(data, "amount", FALSE).val

\* four records out of order, two of them with equal keys
C20_Witness ==
    /\ CallOf("quicksort")
    /\ Len(data) = MaxArr
    /\ result.val # data
    /\ \E i, j \in DOMAIN data : i < j /\ QuickKey(data[i]) = QuickKey(data[j])
    /\ \E i, j \in DOMAIN data : i < j /\ PyLt(QuickKey(data[j]), QuickKey(data[i]))

====
